---- MODULE Spec2Model ----
(***************************************************************************)
(* wlines_run (src/src/main.rs): the two commands `index` and `run`.       *)
(*                                                                         *)
(* Strings are sequences of one-character strings, so that trimming,       *)
(* prefix matching, slicing, lower-casing and token splitting are computed *)
(* character by character, as the code computes them.  The character       *)
(* "E_acute" stands for U+00C9 and "e_acute" for U+00E9 (a letter pair     *)
(* outside ASCII).                                                         *)
(***************************************************************************)
EXTENDS Integers, Sequences, FiniteSets, TLC

(***************************************************************************)
(* Bounds of the model.                                                    *)
(***************************************************************************)
\* Clock readings of SystemTime::now() are drawn from 0..MaxTime.
MaxTime == 1
\* A recorded rank is incremented only while it is below MaxRank (the rank
\* is a u32 in the code; its overflow at 2^32 - 1 is not reached).
MaxRank == 2
\* A directory listing (fs::read_dir) yields at most MaxEntries entries.
MaxEntries == 1

(***************************************************************************)
(* Strings                                                                 *)
(***************************************************************************)
\* str::starts_with
starts_with(s, p) ==
  /\ Len(p) <= Len(s)
  /\ \A i \in 1..Len(p) : s[i] = p[i]

\* char::is_whitespace, on the characters of the model
is_whitespace(c) == c \in {" ", "\n", "\t", "\r"}

RECURSIVE trim_start(_)
trim_start(s) ==
  IF s # <<>> /\ is_whitespace(Head(s)) THEN trim_start(Tail(s)) ELSE s

RECURSIVE trim_end(_)
trim_end(s) ==
  IF s # <<>> /\ is_whitespace(s[Len(s)])
  THEN trim_end(SubSeq(s, 1, Len(s) - 1))
  ELSE s

\* str::trim
trim(s) == trim_end(trim_start(s))

\* u8/char code order of the characters that occur in titles (Rust compares
\* strings byte-wise; only the relative order matters).
char_code(c) ==
  CASE c = "." -> 46
    [] c = "/" -> 47
    [] c = "A" -> 65
    [] c = "E" -> 69
    [] c = "X" -> 88
    [] c = "a" -> 97
    [] c = "b" -> 98
    [] c = "d" -> 100
    [] c = "e" -> 101
    [] c = "k" -> 107
    [] c = "l" -> 108
    [] c = "m" -> 109
    [] c = "n" -> 110
    [] c = "s" -> 115
    [] c = "t" -> 116
    [] c = "x" -> 120
    [] c = "E_acute" -> 201
    [] c = "e_acute" -> 233
    [] OTHER -> 0

\* Ord for String: lexicographic on the characters
RECURSIVE str_cmp(_, _)
str_cmp(s, t) ==
  IF s = <<>> /\ t = <<>> THEN "Equal"
  ELSE IF s = <<>> THEN "Less"
  ELSE IF t = <<>> THEN "Greater"
  ELSE IF char_code(Head(s)) < char_code(Head(t)) THEN "Less"
  ELSE IF char_code(Head(s)) > char_code(Head(t)) THEN "Greater"
  ELSE str_cmp(Tail(s), Tail(t))

\* u8::to_ascii_lowercase: only A-Z change
ascii_lower_char(c) ==
  CASE c = "A" -> "a"
    [] c = "E" -> "e"
    [] c = "X" -> "x"
    [] OTHER -> c

\* str::to_ascii_lowercase
to_ascii_lowercase(s) == [i \in 1..Len(s) |-> ascii_lower_char(s[i])]

(***************************************************************************)
(* Data model                                                              *)
(***************************************************************************)
SourceTypes == {"StartMenu", "Path"}

\* SourceType::display_name
display_name(source) == IF source = "StartMenu" THEN <<"S">> ELSE <<"P">>

\* struct Program, as index_directory builds it for the file `rel` found
\* below the scanned root `prefix`
MkProgram(prefix, rel, source) ==
  [title |-> rel, source |-> source, abs_path |-> prefix \o <<"/">> \o rel]

\* struct HistoryEntry
MkHistoryEntry(rank, access) == [rank |-> rank, access |-> access]

(***************************************************************************)
(* Frecency Ranker                                                         *)
(***************************************************************************)
\* frecency(): rank / (sqrt(now - access) / 10 + 5), kept in symbolic form.
\* The subtraction is done on f64, so a later access gives a negative
\* difference, whose square root is NaN; NaN propagates to the score.
frecency(history, current_time) ==
  [nan  |-> current_time - history.access < 0,
   rank |-> history.rank,
   d    |-> current_time - history.access]

\* sqrt(x) - sqrt(y) > c over the naturals x, y and the integer c
sqrt_diff_gt(x, y, c) ==
  IF c >= 0
  THEN LET t == x - y - c * c IN t > 0 /\ t * t > 4 * c * c * y
  ELSE ~ (LET t == y - x - c * c IN t >= 0 /\ t * t >= 4 * c * c * x)

\* score(a) > score(b):  ra * (sqrt(db) + 50) > rb * (sqrt(da) + 50), decided
\* exactly on integers.  For the ranks and differences within the bounds
\* the f64 computation of the code orders the scores the same way.
score_gt(a, b) ==
  sqrt_diff_gt(a.rank * a.rank * b.d, b.rank * b.rank * a.d,
               50 * (b.rank - a.rank))

\* f64::partial_cmp: None when either side is NaN
partial_cmp(x, y) ==
  IF x.nan \/ y.nan THEN "None"
  ELSE IF score_gt(y, x) THEN "Less"
  ELSE IF score_gt(x, y) THEN "Greater"
  ELSE "Equal"

\* sort_cmp with the precedence of recorded programs left out: a pair of
\* which only one has a record is ordered by title.
sort_cmp_no_precedence(a, b, history, time_now) ==
  IF a.abs_path \in DOMAIN history /\ b.abs_path \in DOMAIN history
  THEN LET c == partial_cmp(frecency(history[b.abs_path], time_now),
                            frecency(history[a.abs_path], time_now))
       IN IF c = "None" THEN "Panic" ELSE c
  ELSE str_cmp(a.title, b.title)

\* The closure given to programs.sort_by; "Panic" is the unwrap of None.
sort_cmp(a, b, history, time_now) ==
  IF a.abs_path \in DOMAIN history /\ b.abs_path \in DOMAIN history
  THEN LET a_score == frecency(history[a.abs_path], time_now)
           b_score == frecency(history[b.abs_path], time_now)
           c == partial_cmp(b_score, a_score)
       IN IF c = "None" THEN "Panic" ELSE c
  ELSE IF a.abs_path \in DOMAIN history THEN "Less"
  ELSE IF b.abs_path \in DOMAIN history THEN "Greater"
  ELSE str_cmp(a.title, b.title)

\* A step of the stable insertion that slice::sort_by performs on short
\* slices: x goes behind the rightmost element it is not Less than.  A
\* comparison that panics aborts the sort.
RECURSIVE insert_tail(_, _, _, _, _)
insert_tail(s, x, j, history, time_now) ==
  IF j = 0 THEN [ok |-> TRUE, seq |-> <<x>> \o s]
  ELSE LET c == sort_cmp(x, s[j], history, time_now)
       IN IF c = "Panic" THEN [ok |-> FALSE, seq |-> <<>>]
          ELSE IF c = "Less" THEN insert_tail(s, x, j - 1, history, time_now)
          ELSE [ok |-> TRUE,
                seq |-> SubSeq(s, 1, j) \o <<x>> \o SubSeq(s, j + 1, Len(s))]

\* programs.sort_by(..) on the first n programs
RECURSIVE sort_prefix(_, _, _, _)
sort_prefix(progs, n, history, time_now) ==
  IF n = 0 THEN [ok |-> TRUE, seq |-> <<>>]
  ELSE LET r == sort_prefix(progs, n - 1, history, time_now)
       IN IF ~ r.ok THEN r
          ELSE insert_tail(r.seq, progs[n], Len(r.seq), history, time_now)

sort_by(progs, history, time_now) ==
  sort_prefix(progs, Len(progs), history, time_now)

(***************************************************************************)
(* Selection Protocol Adapter                                              *)
(***************************************************************************)
\* format_program_display_name: "<marker>] <title>"
format_program_display_name(program) ==
  display_name(program.source) \o <<"]", " ">> \o program.title

\* prog_name_links: the display name of every program, in display order
prog_name_links(progs) ==
  [i \in 1..Len(progs) |-> format_program_display_name(progs[i])]

\* The line sent to the picker for one display name
candidate_line(name) == name \o <<":", " ", "\n">>

\* link_matches without the ":" behind the display name
link_matches_no_delimiter(input_string, name) == starts_with(input_string, name)

\* The predicate of the find: input_string.starts_with("<name>:")
link_matches(input_string, name) == starts_with(input_string, name \o <<":">>)

\* Iterator::find over prog_name_links: the position of the first display
\* name that matches, 0 when none does
matched_input(links, input_string) ==
  IF \E i \in 1..Len(links) : link_matches(input_string, links[i])
  THEN CHOOSE i \in 1..Len(links) :
         /\ link_matches(input_string, links[i])
         /\ \A j \in 1..(i - 1) : ~ link_matches(input_string, links[j])
  ELSE 0

\* input_string[(name.len() + 1)..] when the input is longer than that,
\* else nothing
arg_string(input_string, name) ==
  IF Len(input_string) > Len(name) + 1
  THEN SubSeq(input_string, Len(name) + 2, Len(input_string))
  ELSE <<>>

\* shlex::split on the characters of the model (blank, tab, newline, the
\* double quote and ordinary characters): words are separated by blanks, a
\* double-quoted stretch belongs to its word with the quotes removed, and
\* an unterminated quote makes the whole split fail (None).
RECURSIVE shlex_scan(_, _, _, _, _)
shlex_scan(s, i, mode, cur, acc) ==
  IF i > Len(s)
  THEN IF mode = "dq" THEN [ok |-> FALSE, tokens |-> <<>>]
       ELSE IF mode = "word" THEN [ok |-> TRUE, tokens |-> Append(acc, cur)]
       ELSE [ok |-> TRUE, tokens |-> acc]
  ELSE LET c == s[i]
       IN IF mode = "dq"
          THEN IF c = "\"" THEN shlex_scan(s, i + 1, "word", cur, acc)
               ELSE shlex_scan(s, i + 1, "dq", Append(cur, c), acc)
          ELSE IF c \in {" ", "\t", "\n"}
          THEN IF mode = "word"
               THEN shlex_scan(s, i + 1, "out", <<>>, Append(acc, cur))
               ELSE shlex_scan(s, i + 1, "out", <<>>, acc)
          ELSE IF c = "\"" THEN shlex_scan(s, i + 1, "dq", cur, acc)
          ELSE shlex_scan(s, i + 1, "word", Append(cur, c), acc)

shlex_split(s) == shlex_scan(s, 1, "out", <<>>, <<>>)

\* launch_args: cmd /c start "" <abs_path> <args...>
launch_args(program, prog_args) ==
  <<<<"/c">>, <<"start">>, <<>>, program.abs_path>> \o prog_args

(***************************************************************************)
(* History Store                                                           *)
(***************************************************************************)
EmptyHistory == [p \in {} |-> MkHistoryEntry(0, 0)]

\* record_launch that increments the rank of an existing record but leaves
\* its access time as it was
record_launch_keeps_access(history, abs_path, time_now) ==
  IF abs_path \in DOMAIN history
  THEN [history EXCEPT ![abs_path] =
          MkHistoryEntry(history[abs_path].rank + 1, history[abs_path].access)]
  ELSE [p \in DOMAIN history \cup {abs_path} |->
          IF p = abs_path THEN MkHistoryEntry(1, time_now) ELSE history[p]]

\* "Save to history": the match on history.get_mut
record_launch(history, abs_path, time_now) ==
  IF abs_path \in DOMAIN history
  THEN [history EXCEPT ![abs_path] =
          MkHistoryEntry(history[abs_path].rank + 1, time_now)]
  ELSE [p \in DOMAIN history \cup {abs_path} |->
          IF p = abs_path THEN MkHistoryEntry(1, time_now) ELSE history[p]]

(***************************************************************************)
(* State                                                                   *)
(***************************************************************************)
VARIABLES
  indexFile,    \* wlines_run_index.json: a sequence of Program
  historyFile,  \* wlines_run_history.json: [present, map]
  run,          \* the last cmd_run invocation: what it read, did and how it ended
  ipc,          \* cmd_index: "idle", "walk", "done" or "panic"
  programs,     \* cmd_index: the HashMap<String, Program>
  work,         \* cmd_index: the roots still to scan
  stack,        \* cmd_index: the open read_dir iterators, innermost first
  found,        \* cmd_index: the accepted files, in the order of discovery
  last_file     \* cmd_index: the file the walk met last (<<>>: none yet)

run_vars == <<historyFile, run>>
index_vars == <<ipc, programs, work, stack, found, last_file>>
vars ==
  <<indexFile, historyFile, run, ipc, programs, work, stack, found, last_file>>

(***************************************************************************)
(* cmd_run                                                                 *)
(***************************************************************************)
ExeA == <<"a", ".", "e", "x", "e">>
LnkB == <<"b", ".", "l", "n", "k">>

\* The programs an Index document of the run model may hold: the same file
\* name in two directories of PATH, and a start-menu shortcut.
IndexedPrograms ==
  {MkProgram(<<"x">>, ExeA, "Path"),
   MkProgram(<<"y">>, ExeA, "Path"),
   MkProgram(<<"m">>, LnkB, "StartMenu")}

\* The Index documents: every order of every non-empty choice of them (the
\* order of HashMap::values is arbitrary).
IndexDocs ==
  {d \in UNION {[1..n -> IndexedPrograms] : n \in 1..Cardinality(IndexedPrograms)} :
     \A i, j \in DOMAIN d : i # j => d[i] # d[j]}

\* What the user may type behind a candidate's "<name>:" in the picker
ArgTexts ==
  {<<" ">>,
   <<" ", "f">>,
   <<" ", "f", " ", "\"", "g", " ", "h", "\"">>,
   <<" ", "\"", "f">>}

\* The picker's standard output for the display names `links`: a candidate
\* line as sent (picked = its position), with or without argument text
\* typed behind it, or a line the user edited (picked = 0).
PickerOutputs(links) ==
  {[picked |-> i, output |-> links[i] \o <<":">> \o t \o <<"\n">>] :
     i \in 1..Len(links), t \in ArgTexts}
  \cup {[picked |-> 0, output |-> links[i] \o <<"\n">>] : i \in 1..Len(links)}
  \cup {[picked |-> 0, output |-> <<"\n">>]}

\* status_success that takes every exit status for a success
status_success_always(code) == TRUE

\* ExitStatus::success
status_success(code) == code = 0

\* "Load history": an absent document is an empty mapping
load_history(file) == IF file.present THEN file.map ELSE EmptyHistory

NoRun ==
  [outcome |-> "none", time_now |-> 0, history |-> EmptyHistory,
   programs |-> <<>>, status |-> 0, picked |-> 0, output |-> <<>>,
   chosen |-> 0, prog_args |-> <<>>, launched |-> <<>>,
   history_before |-> historyFile]

Times == 0..MaxTime
ExitCodes == {0, 1}

\* One of the expect()s on the way to the picker's exit fails (the picker
\* cannot be started, written to or read, the index cannot be loaded).
cmd_run_io_panic ==
  /\ run.outcome # "waiting"
  /\ run' = [NoRun EXCEPT !.outcome = "io_panic"]
  /\ UNCHANGED <<indexFile, historyFile, index_vars>>

\* cmd_run up to "Wait for output": the picker is started, the index and the
\* history are loaded, the clock is read, the programs are sorted and their
\* candidate lines are sent.  partial_cmp(..).unwrap() may panic in the sort.
cmd_run_start(time_now) ==
  LET history == load_history(historyFile)
      s == sort_by(indexFile, history, time_now)
  IN /\ run.outcome # "waiting"
     /\ run' = [NoRun EXCEPT !.outcome = IF s.ok THEN "waiting" ELSE "sort_panic",
                             !.time_now = time_now,
                             !.history = history,
                             !.programs = s.seq]
     /\ UNCHANGED <<indexFile, historyFile, index_vars>>

\* "Match selection": the trimmed output and the position of the display
\* name found for it
input_string(output) == trim(output)

chosen_prog(progs, output) ==
  matched_input(prog_name_links(progs), input_string(output))

\* "Extract input arguments" for the display name at position `chosen`
extract_args(progs, output, chosen) ==
  shlex_split(arg_string(input_string(output),
                         prog_name_links(progs)[chosen]))

\* The picker exits with a non-success status: "Exited".
cmd_run_exited(code) ==
  /\ run.outcome = "waiting"
  /\ ~ status_success(code)
  /\ run' = [run EXCEPT !.outcome = "exited", !.status = code]
  /\ UNCHANGED <<indexFile, historyFile, index_vars>>

\* No display name matches: "Unknown choice".
cmd_run_unknown(code, pk) ==
  /\ run.outcome = "waiting"
  /\ status_success(code)
  /\ chosen_prog(run.programs, pk.output) = 0
  /\ run' = [run EXCEPT !.outcome = "unknown", !.status = code,
                        !.picked = pk.picked, !.output = pk.output]
  /\ UNCHANGED <<indexFile, historyFile, index_vars>>

\* shlex::split(..).unwrap() panics on argument text that does not split.
cmd_run_shlex_panic(code, pk) ==
  LET chosen == chosen_prog(run.programs, pk.output)
  IN /\ run.outcome = "waiting"
     /\ status_success(code)
     /\ chosen # 0
     /\ ~ extract_args(run.programs, pk.output, chosen).ok
     /\ run' = [run EXCEPT !.outcome = "shlex_panic", !.status = code,
                           !.picked = pk.picked, !.output = pk.output,
                           !.chosen = chosen]
     /\ UNCHANGED <<indexFile, historyFile, index_vars>>

\* Command::new("cmd").spawn() fails: "Couldn't start program".
cmd_run_launch_panic(code, pk) ==
  LET chosen == chosen_prog(run.programs, pk.output)
  IN /\ run.outcome = "waiting"
     /\ status_success(code)
     /\ chosen # 0
     /\ LET args == extract_args(run.programs, pk.output, chosen)
        IN /\ args.ok
           /\ run' = [run EXCEPT !.outcome = "launch_panic", !.status = code,
                                 !.picked = pk.picked, !.output = pk.output,
                                 !.chosen = chosen, !.prog_args = args.tokens]
     /\ UNCHANGED <<indexFile, historyFile, index_vars>>

\* The program is started and the history is recorded in memory; then the
\* history document is written, or writing it fails.
cmd_run_launched(code, pk, written) ==
  LET chosen == chosen_prog(run.programs, pk.output)
  IN /\ run.outcome = "waiting"
     /\ status_success(code)
     /\ chosen # 0
     /\ LET args == extract_args(run.programs, pk.output, chosen)
            abs_path == run.programs[chosen].abs_path
            history == record_launch(run.history, abs_path, run.time_now)
        IN /\ args.ok
           /\ abs_path \in DOMAIN run.history =>
                run.history[abs_path].rank < MaxRank
           /\ run' = [run EXCEPT
                        !.outcome = IF written THEN "launched" ELSE "write_panic",
                        !.status = code,
                        !.picked = pk.picked, !.output = pk.output,
                        !.chosen = chosen, !.prog_args = args.tokens,
                        !.history = history,
                        !.launched =
                          <<launch_args(run.programs[chosen], args.tokens)>>]
           /\ historyFile' =
                IF written THEN [present |-> TRUE, map |-> history]
                ELSE historyFile
     /\ UNCHANGED <<indexFile, index_vars>>

\* The picker shows the programs in display order; its output is drawn from
\* the lines a user can produce from them.
PickerChoices == PickerOutputs(prog_name_links(run.programs))

NextRun ==
  \/ cmd_run_io_panic
  \/ \E time_now \in Times : cmd_run_start(time_now)
  \/ \E code \in ExitCodes : cmd_run_exited(code)
  \/ \E code \in ExitCodes, pk \in PickerChoices : cmd_run_unknown(code, pk)
  \/ \E code \in ExitCodes, pk \in PickerChoices : cmd_run_shlex_panic(code, pk)
  \/ \E code \in ExitCodes, pk \in PickerChoices : cmd_run_launch_panic(code, pk)
  \/ \E code \in ExitCodes, pk \in PickerChoices, written \in BOOLEAN :
       cmd_run_launched(code, pk, written)

InitIndexVars ==
  /\ ipc = "idle"
  /\ programs = [k \in {} |-> 0]
  /\ work = <<>>
  /\ stack = <<>>
  /\ found = <<>>
  /\ last_file = <<>>

\* A run starts from an Index document that a build-index has written and
\* from no History document.
InitRun ==
  /\ indexFile \in IndexDocs
  /\ historyFile = [present |-> FALSE, map |-> EmptyHistory]
  /\ run = NoRun
  /\ InitIndexVars

SpecRun == InitRun /\ [][NextRun]_vars

(***************************************************************************)
(* cmd_index                                                               *)
(***************************************************************************)
\* const EXTENSIONS
EXTENSIONS ==
  {<<"e", "x", "e">>, <<"l", "n", "k">>, <<"b", "a", "t">>,
   <<"c", "m", "d">>, <<"c", "o", "m">>}

\* Path::extension of a file name: the text behind the last dot, unless
\* there is no dot or the only dot starts the name
extension(name) ==
  LET dots == {i \in 1..Len(name) : name[i] = "."}
  IN IF dots = {} \/ dots = {1}
     THEN [some |-> FALSE, ext |-> <<>>]
     ELSE LET last == CHOOSE i \in dots : \A j \in dots : j <= i
          IN [some |-> TRUE, ext |-> SubSeq(name, last + 1, Len(name))]

\* EXTENSIONS.iter().any(|&e| e == ext): str == OsStr compares the bytes
extension_accepted(ext) == \E e \in EXTENSIONS : e = ext

\* program_key without the lower-casing
program_key_exact(path_str) == path_str

\* The key of programs.insert: path_str.to_ascii_lowercase()
program_key(path_str) == to_ascii_lowercase(path_str)

\* HashMap::insert: a value already stored under the key is replaced
hashmap_insert(map, key, value) ==
  [k \in DOMAIN map \cup {key} |-> IF k = key THEN value ELSE map[k]]

\* Path::join
join(dir, name) == dir \o <<"/">> \o name

\* path.strip_prefix(prefix): the path relative to the scanned root
strip_prefix(path, prefix) == SubSeq(path, Len(prefix) + 2, Len(path))

\* index_start_menu and index_path: the roots in the order they are scanned.
\* "m" and "n" stand for the start-menu folders below AppData and
\* ProgramData; PATH names the same directory twice, in two spellings.
StartMenuRoots ==
  <<[dir |-> <<"m">>, source |-> "StartMenu", recursively |-> TRUE],
    [dir |-> <<"n">>, source |-> "StartMenu", recursively |-> TRUE]>>

PathRoots ==
  <<[dir |-> <<"x">>, source |-> "Path", recursively |-> FALSE],
    [dir |-> <<"X">>, source |-> "Path", recursively |-> FALSE]>>

\* The file names a directory of each kind may hold
FileNames(source) ==
  IF source = "StartMenu"
  THEN {<<"s", ".", "l", "n", "k">>}
  ELSE {<<"a", ".", "e", "x", "e">>,
        <<"A", ".", "e", "x", "e">>,
        <<"a", ".", "E", "X", "E">>,
        <<"a", ".", "t", "x", "t">>,
        <<"e_acute", ".", "e", "x", "e">>,
        <<"E_acute", ".", "e", "x", "e">>}

\* What read_dir may yield for one entry: a file, a sub-directory (the
\* directories below a root hold no directories themselves) or an error
DirEntries(source, nested) ==
  {[kind |-> "file", name |-> n] : n \in FileNames(source)}
  \cup (IF nested THEN {} ELSE {[kind |-> "dir", name |-> <<"d">>]})
  \cup {[kind |-> "err", name |-> <<>>]}

\* The listings of a directory: up to MaxEntries distinct entries, any order
Listings(source, nested) ==
  {l \in UNION {[1..n -> DirEntries(source, nested)] : n \in 0..MaxEntries} :
     \A i, j \in DOMAIN l : i # j => l[i] # l[j]}

Frame(dir, prefix, source, recursively, entries) ==
  [dir |-> dir, prefix |-> prefix, source |-> source,
   recursively |-> recursively, entries |-> entries]

\* cmd_index begins: an empty HashMap and all the roots to scan.  One
\* build-index is followed from its start to its end.
index_start ==
  /\ ipc = "idle"
  /\ ipc' = "walk"
  /\ programs' = [k \in {} |-> 0]
  /\ work' = StartMenuRoots \o PathRoots
  /\ stack' = <<>>
  /\ found' = <<>>
  /\ last_file' = <<>>
  /\ UNCHANGED <<indexFile, run_vars>>

\* index_directory on the next root: fs::read_dir succeeds
index_root_open(listing) ==
  /\ ipc = "walk" /\ stack = <<>> /\ work # <<>>
  /\ LET root == Head(work)
     IN stack' = <<Frame(root.dir, root.dir, root.source, root.recursively,
                         listing)>>
  /\ work' = Tail(work)
  /\ UNCHANGED <<ipc, programs, found, last_file, indexFile, run_vars>>

\* index_directory on the next root: fs::read_dir fails, the root is skipped
index_root_skipped ==
  /\ ipc = "walk" /\ stack = <<>> /\ work # <<>>
  /\ work' = Tail(work)
  /\ UNCHANGED <<ipc, programs, stack, found, last_file, indexFile, run_vars>>

\* The frame on top of the stack with its first entry consumed
Advance == <<[Head(stack) EXCEPT !.entries = Tail(@)]>> \o Tail(stack)

HasEntry(kind) ==
  /\ ipc = "walk" /\ stack # <<>>
  /\ Head(stack).entries # <<>>
  /\ Head(Head(stack).entries).kind = kind

\* The loop body for an entry that is a file
index_file ==
  /\ HasEntry("file")
  /\ LET top == Head(stack)
         path == join(top.dir, Head(top.entries).name)
         ext == extension(Head(top.entries).name)
     IN /\ last_file' = path
        /\ IF ext.some /\ extension_accepted(ext.ext)
           THEN /\ programs' =
                     hashmap_insert(programs, program_key(path),
                       [title |-> strip_prefix(path, top.prefix),
                        abs_path |-> path,
                        source |-> top.source])
                /\ found' = Append(found, path)
           ELSE UNCHANGED <<programs, found>>
  /\ stack' = Advance
  /\ UNCHANGED <<ipc, work, indexFile, run_vars>>

\* The loop body for a sub-directory that is entered: read_dir succeeds
index_dir_open(listing) ==
  /\ HasEntry("dir")
  /\ Head(stack).recursively
  /\ LET top == Head(stack)
         path == join(top.dir, Head(top.entries).name)
     IN stack' = <<Frame(path, top.prefix, top.source, TRUE, listing)>>
                  \o Advance
  /\ UNCHANGED <<ipc, programs, work, found, last_file, indexFile, run_vars>>

\* The loop body for a sub-directory that is not entered (no recursion) or
\* cannot be read
index_dir_skipped ==
  /\ HasEntry("dir")
  /\ stack' = Advance
  /\ UNCHANGED <<ipc, programs, work, found, last_file, indexFile, run_vars>>

\* entry.unwrap() on an entry that read_dir could not list
index_entry_panic ==
  /\ HasEntry("err")
  /\ ipc' = "entry_panic"
  /\ UNCHANGED <<programs, work, stack, found, last_file, indexFile, run_vars>>

\* The for loop over a directory ends
index_dir_done ==
  /\ ipc = "walk" /\ stack # <<>>
  /\ Head(stack).entries = <<>>
  /\ stack' = Tail(stack)
  /\ UNCHANGED <<ipc, programs, work, found, last_file, indexFile, run_vars>>

\* The least key of a non-empty set of keys
min_key(keys) == CHOOSE k \in keys : \A o \in keys : str_cmp(o, k) # "Less"

RECURSIVE ascending(_)
ascending(keys) ==
  IF keys = {} THEN <<>>
  ELSE <<min_key(keys)>> \o ascending(keys \ {min_key(keys)})

reversed(s) == [i \in 1..Len(s) |-> s[Len(s) + 1 - i]]

\* programs.values().collect(): the iteration order of the HashMap is not
\* fixed; two orders stand for it.
values_orders(map) ==
  LET keys == ascending(DOMAIN map)
  IN {[i \in 1..Len(keys) |-> map[keys[i]]],
      [i \in 1..Len(keys) |-> map[reversed(keys)[i]]]}

\* "Write to file": the index document is replaced, or writing it fails
index_write(written) ==
  /\ ipc = "walk" /\ stack = <<>> /\ work = <<>>
  /\ IF written
     THEN /\ indexFile' \in values_orders(programs)
          /\ ipc' = "done"
     ELSE /\ indexFile' = indexFile
          /\ ipc' = "write_panic"
  /\ UNCHANGED <<programs, work, stack, found, last_file, run_vars>>

\* What read_dir may return for the next root, and for the sub-directory
\* that is the current entry
RootListings ==
  IF work = <<>> THEN {} ELSE Listings(Head(work).source, FALSE)

SubListings ==
  IF stack = <<>> THEN {}
  ELSE Listings(Head(stack).source, TRUE)

NextIndex ==
  \/ index_start
  \/ \E listing \in RootListings : index_root_open(listing)
  \/ index_root_skipped
  \/ index_file
  \/ \E listing \in SubListings : index_dir_open(listing)
  \/ index_dir_skipped
  \/ index_entry_panic
  \/ index_dir_done
  \/ \E written \in BOOLEAN : index_write(written)

\* Before the first build-index: no index document, no history document
InitIndex ==
  /\ indexFile = <<>>
  /\ historyFile = [present |-> FALSE, map |-> EmptyHistory]
  /\ run = NoRun
  /\ InitIndexVars

SpecIndex == InitIndex /\ [][NextIndex]_vars

(***************************************************************************)
(* Properties of cmd_run (checked under SpecRun)                           *)
(***************************************************************************)
\* The history the run loaded, the display names it sent, the line it
\* matched and the program it chose
Before == load_history(run.history_before)
Links == prog_name_links(run.programs)
Line == trim(run.output)
Chosen == run.programs[run.chosen]

\* The run has sorted the programs
Sorted ==
  run.outcome \in {"waiting", "exited", "unknown", "shlex_panic",
                   "launch_panic", "write_panic", "launched"}

\* The run has ended after the picker exited
Finished ==
  run.outcome \in {"exited", "unknown", "shlex_panic", "launch_panic",
                   "write_panic", "launched"}

\* The run has read and matched the picker's line
PastPicker == Finished /\ run.outcome # "exited"

\* p is a prefix of s, stated on the characters
HasPrefix(s, p) == Len(p) <= Len(s) /\ SubSeq(s, 1, Len(p)) = p

\* name followed by ":" is a prefix of the line
LabelPrefixes(name) == HasPrefix(Line, name \o <<":">>)

\* C1: the history document is rewritten only by a run whose picker exited
\* successfully, whose line matched an entry and whose launch request
\* succeeded; after a cancelled run (non-success exit) and after a run whose
\* line matches no label (reported as an unknown choice) the document is
\* what it was before and nothing was launched.
C1_HistoryRewrittenOnlyAfterLaunch ==
  /\ historyFile # run.history_before =>
       /\ run.outcome = "launched"
       /\ run.status = 0
       /\ run.chosen \in 1..Len(Links)
       /\ LabelPrefixes(Links[run.chosen])
       /\ run.launched = <<launch_args(Chosen, run.prog_args)>>
  /\ (Finished /\ run.status # 0) =>
       /\ run.outcome = "exited"
       /\ historyFile = run.history_before
       /\ run.launched = <<>>
  /\ (PastPicker /\ run.status = 0
        /\ \A i \in 1..Len(Links) : ~ LabelPrefixes(Links[i])) =>
       /\ run.outcome = "unknown"
       /\ historyFile = run.history_before
       /\ run.launched = <<>>

\* C1 witness: a cancelled run, or a run with an unknown choice, that found
\* a history document holding records
C1_Witness ==
  /\ run.outcome \in {"exited", "unknown"}
  /\ run.history_before.present
  /\ DOMAIN Before # {}

\* C2 as stated: a launch of a path without record inserts rank 1 and the
\* run's timestamp; a launch of a path with a record adds exactly 1 to its
\* rank and overwrites last_access with the run's timestamp, which is never
\* below the previous last_access.
C2_RecordLaunchNeverLowersAccess ==
  run.outcome = "launched" =>
    LET p == Chosen.abs_path
        after == historyFile.map
    IN /\ p \in DOMAIN after
       /\ IF p \notin DOMAIN Before
          THEN after[p] = [rank |-> 1, access |-> run.time_now]
          ELSE /\ after[p].rank = Before[p].rank + 1
               /\ after[p].access = run.time_now
               /\ after[p].access >= Before[p].access

\* C2 as amended: as above, but the new last_access is at or above the
\* previous one exactly when the run's clock reading is not earlier than the
\* stored last_access (a clock set back between two runs lowers it).
C2_RecordLaunch ==
  run.outcome = "launched" =>
    LET p == Chosen.abs_path
        after == historyFile.map
    IN /\ p \in DOMAIN after
       /\ IF p \notin DOMAIN Before
          THEN after[p] = [rank |-> 1, access |-> run.time_now]
          ELSE /\ after[p].rank = Before[p].rank + 1
               /\ after[p].access = run.time_now
               /\ after[p].access >= Before[p].access
                    <=> run.time_now >= Before[p].access

\* C2 witness: a second launch of a path, by a run whose clock reads earlier
\* than the record's last_access
C2_Witness ==
  /\ run.outcome = "launched"
  /\ Chosen.abs_path \in DOMAIN Before
  /\ historyFile.map[Chosen.abs_path].rank = 2
  /\ run.time_now < Before[Chosen.abs_path].access

\* C3: the line is the picker's output without its surrounding whitespace;
\* an entry is matched exactly when some display name followed by ":" is a
\* prefix of the line, and the matched entry's display name followed by ":"
\* is such a prefix; the arguments are the shell-style tokens of the text
\* behind it, none when nothing follows; a line equal to a display name
\* (no ":") matches nothing through that name.
C3_ParsePickerOutput ==
  PastPicker =>
    /\ \E a, b \in 0..Len(run.output) :
         /\ a + b + Len(Line) = Len(run.output)
         /\ Line = SubSeq(run.output, a + 1, a + Len(Line))
         /\ \A i \in (1..a) \cup ((Len(run.output) - b + 1)..Len(run.output)) :
              is_whitespace(run.output[i])
         /\ Line # <<>> =>
              ~ is_whitespace(Line[1]) /\ ~ is_whitespace(Line[Len(Line)])
    /\ run.chosen # 0 <=> \E i \in 1..Len(Links) : LabelPrefixes(Links[i])
    /\ run.chosen # 0 => LabelPrefixes(Links[run.chosen])
    /\ run.outcome \in {"launch_panic", "write_panic", "launched"} =>
         LET rest == SubSeq(Line, Len(Links[run.chosen]) + 2, Len(Line))
         IN /\ shlex_split(rest).ok
            /\ run.prog_args = shlex_split(rest).tokens
            /\ rest = <<>> => run.prog_args = <<>>
            /\ rest = <<" ", "f", " ", "\"", "g", " ", "h", "\"">> =>
                 run.prog_args = << <<"f">>, <<"g", " ", "h">> >>
    /\ \A i \in 1..Len(Links) :
         Line = Links[i] => run.chosen = 0 \/ Links[run.chosen] # Links[i]

\* C3 witness: a line with a quoted argument was matched and split in two
C3_Witness ==
  /\ run.outcome = "launched"
  /\ Len(run.prog_args) = 2
  /\ run.prog_args[2] = <<"g", " ", "h">>

\* The text behind the matched display name does not split into tokens
TokenSplitFails ==
  /\ PastPicker
  /\ \E i \in 1..Len(Links) :
       /\ LabelPrefixes(Links[i])
       /\ \A j \in 1..(i - 1) : ~ LabelPrefixes(Links[j])
       /\ ~ shlex_split(SubSeq(Line, Len(Links[i]) + 2, Len(Line))).ok

\* C4: when the line matches an entry but its argument text does not split
\* into tokens, the run reports an unrecognized choice and ends normally
\* (no crash), launches nothing and leaves the history document as it was.
C4_MalformedArgumentsReported ==
  TokenSplitFails =>
    /\ run.outcome = "unknown"
    /\ run.launched = <<>>
    /\ historyFile = run.history_before

HasRecord(i) == run.programs[i].abs_path \in DOMAIN Before

\* C5: in the display order every program with a history record stands
\* before every program without one, and the programs without record are
\* in ascending order of title; the display order holds the programs of the
\* index.
C5_RecordedProgramsFirst ==
  Sorted =>
    /\ Len(run.programs) = Len(indexFile)
    /\ \A i \in 1..Len(indexFile) :
         \E j \in 1..Len(run.programs) : run.programs[j] = indexFile[i]
    /\ \A i, j \in 1..Len(run.programs) :
         /\ HasRecord(i) /\ ~ HasRecord(j) => i < j
         /\ (~ HasRecord(i) /\ ~ HasRecord(j) /\ i < j) =>
              str_cmp(run.programs[i].title, run.programs[j].title) # "Greater"

\* C5 witness: a recorded program stands before an unrecorded program of
\* lesser title
C5_Witness ==
  /\ Sorted
  /\ \E i, j \in 1..Len(run.programs) :
       /\ i < j /\ HasRecord(i) /\ ~ HasRecord(j)
       /\ str_cmp(run.programs[i].title, run.programs[j].title) = "Greater"

\* C6: a history record whose last_access is later than the run's clock
\* reading does not make the ranking fail (the difference is clamped to 0).
C6_FutureAccessIsClamped ==
  (/\ run.outcome \notin {"none", "io_panic"}
   /\ \E i \in 1..Len(indexFile) :
        /\ indexFile[i].abs_path \in DOMAIN Before
        /\ Before[indexFile[i].abs_path].access > run.time_now)
    => run.outcome # "sort_panic"

\* C10: when the picker returns the candidate line of the entry at position
\* `picked` of the display order (with or without argument text behind it),
\* the program launched and the history record updated are those of that
\* entry's absolute path.
C10_SelectionRoundTrip ==
  (run.outcome = "launched" /\ run.picked # 0) =>
    LET e == run.programs[run.picked]
    IN /\ run.launched[1][4] = e.abs_path
       /\ e.abs_path \in DOMAIN historyFile.map
       /\ historyFile.map[e.abs_path].access = run.time_now
       /\ historyFile.map[e.abs_path].rank =
            IF e.abs_path \in DOMAIN Before
            THEN Before[e.abs_path].rank + 1 ELSE 1

(***************************************************************************)
(* Properties of cmd_index (checked under SpecIndex)                       *)
(***************************************************************************)
\* Letter-case folding: A-Z and the letters outside ASCII
case_fold_char(c) ==
  IF c = "E_acute" THEN "e_acute" ELSE ascii_lower_char(c)

case_fold(s) == [i \in 1..Len(s) |-> case_fold_char(s[i])]

\* The file name of a path: what follows its last "/"
file_name_of(path) ==
  LET slashes == {i \in 1..Len(path) : path[i] = "/"}
      last == CHOOSE i \in slashes : \A j \in slashes : j <= i
  IN SubSeq(path, last + 1, Len(path))

\* The extension of the path's file name, compared without regard to case,
\* is on the allow-list
AllowedIgnoringCase(path) ==
  LET ext == extension(file_name_of(path))
  IN ext.some /\ case_fold(ext.ext) \in EXTENSIONS

\* C7: a file met by the scan is in the catalog if and only if its
\* extension, compared case-insensitively, is one of exe, lnk, bat, cmd, com.
C7_ExtensionFilterIgnoresCase ==
  /\ last_file # <<>> =>
       (AllowedIgnoringCase(last_file)
          <=> \E k \in DOMAIN programs :
                case_fold(programs[k].abs_path) = case_fold(last_file))
  /\ \A k \in DOMAIN programs : AllowedIgnoringCase(programs[k].abs_path)

\* The path discovered last among those that `fold` maps to k
LastFoundAscii(k) ==
  found[CHOOSE j \in DOMAIN found :
          /\ to_ascii_lowercase(found[j]) = k
          /\ \A l \in DOMAIN found : to_ascii_lowercase(found[l]) = k => l <= j]

LastFoundFolded(k) ==
  found[CHOOSE j \in DOMAIN found :
          /\ case_fold(found[j]) = k
          /\ \A l \in DOMAIN found : case_fold(found[l]) = k => l <= j]

C9_WalkErrorsAreSwallowed == ipc # "entry_panic"

====
